---- MODULE Spec2Model ----
(***************************************************************************)
(* A model of parse-westminster.py: the line segmenter parse_westminster   *)
(* and its helpers clean_title, clean_content and get_topics.              *)
(*                                                                         *)
(* A Python str is a sequence of one-character strings, so every regular   *)
(* expression, prefix test and substring test of the source is modelled    *)
(* on the characters themselves.  A value that may be None is a sequence   *)
(* of length at most one: None is <<>> and the value v is <<v>>.           *)
(***************************************************************************)
EXTENDS Integers, Sequences, FiniteSets, TLC

(***************************************************************************)
(* str primitives                                                          *)
(***************************************************************************)

None == <<>>

Some(v) == <<v>>

\* the characters str.strip() removes and the regular expression \s matches
WhiteSpace == {" ", "\t", "\n", "\r", "\f"}

\* the characters the regular expression \d matches
Digits == {"0", "1", "2", "3", "4", "5", "6", "7", "8", "9"}

\* Python evaluates the argument of a call, and the right-hand side of an
\* assignment, once: The({e : x \in {v}}) is the value of e with x bound to
\* the value of v
The(S) == CHOOSE r \in S : TRUE

\* the least element of a non-empty set of integers
Least(S_arg) ==
    The({
    CHOOSE x \in S : \A y \in S : x <= y
    : S \in {S_arg}})

\* the greatest element of a non-empty set of integers
Greatest(S_arg) ==
    The({
    CHOOSE x \in S : \A y \in S : x >= y
    : S \in {S_arg}})

\* the index after the maximal run of characters of chars that starts at p
RunEnd(s_arg, p_arg, chars_arg) ==
    The({
    Least({q \in p..(Len(s) + 1) : q > Len(s) \/ s[q] \notin chars})
    : s \in {s_arg}, p \in {p_arg}, chars \in {chars_arg}})

\* str.lstrip()
lstrip(s_arg) ==
    The({
    SubSeq(s, RunEnd(s, 1, WhiteSpace), Len(s))
    : s \in {s_arg}})

\* str.rstrip()
rstrip(s_arg) ==
    The({
    SubSeq(s, 1, Greatest({q \in 0..Len(s) : q = 0 \/ s[q] \notin WhiteSpace}))
    : s \in {s_arg}})

\* str.strip()
strip(s) == rstrip(lstrip(s))

\* the literal lit occurs in s at index p
MatchAt(s_arg, p_arg, lit_arg) ==
    The({
    /\ p + Len(lit) - 1 <= Len(s)
    /\ \A k \in 1..Len(lit) : s[p + k - 1] = lit[k]
    : s \in {s_arg}, p \in {p_arg}, lit \in {lit_arg}})

\* str.startswith(prefix)
startswith(s, prefix) == MatchAt(s, 1, prefix)

\* the Python test  sub in s
Contains(s_arg, sub_arg) ==
    The({
    \E p \in 1..(Len(s) - Len(sub) + 1) : MatchAt(s, p, sub)
    : s \in {s_arg}, sub \in {sub_arg}})

\* sep.join(parts)
RECURSIVE join(_, _)
join(sep_arg, parts_arg) ==
    The({
    IF parts = <<>> THEN <<>>
    ELSE IF Len(parts) = 1 THEN parts[1]
    ELSE parts[1] \o sep \o join(sep, Tail(parts))
    : sep \in {sep_arg}, parts \in {parts_arg}})

(***************************************************************************)
(* The regular expressions of clean_title and clean_content.  A variant    *)
(* pattern is a chain of tags  \[CODE [^\]]+\]  separated by one space;     *)
(* re.sub replaces every leftmost non-overlapping match by one of its      *)
(* capture groups.                                                         *)
(***************************************************************************)

PCUS_OPEN == <<"[", "P", "C", "U", "S", " ">>

UPCUSA_OPEN == <<"[", "U", "P", "C", "U", "S", "A", " ">>

\* index of the first "]" at or after p, 0 when there is none
FirstClose(s_arg, p_arg) ==
    The({
    LET closes == {q \in p..Len(s) : s[q] = "]"}
    IN  IF closes = {} THEN 0 ELSE Least(closes)
    : s \in {s_arg}, p \in {p_arg}})

NoMatch == [ok |-> FALSE, end |-> 0, bodies |-> <<>>]

\* a match at index p of the chain of tags opened by opens: each tag is its
\* opening literal, a non-empty body [^\]]+ and "]"; tags are one space apart
RECURSIVE TagMatch(_, _, _)
TagMatch(s_arg, p_arg, opens_arg) ==
    The({
    LET open == Head(opens)
        b    == p + Len(open)
        q    == FirstClose(s, b)
    IN  IF ~MatchAt(s, p, open) \/ q = 0 \/ q = b THEN NoMatch
        ELSE IF Len(opens) = 1
             THEN [ok |-> TRUE, end |-> q, bodies |-> <<SubSeq(s, b, q - 1)>>]
        ELSE IF ~MatchAt(s, q + 1, <<" ">>) THEN NoMatch
        ELSE LET rest == TagMatch(s, q + 2, Tail(opens))
             IN  IF ~rest.ok THEN NoMatch
                 ELSE [ok |-> TRUE, end |-> rest.end,
                       bodies |-> <<SubSeq(s, b, q - 1)>> \o rest.bodies]
    : s \in {s_arg}, p \in {p_arg}, opens \in {opens_arg}})

\* the capture groups of a match: the bodies of the tags written with ( )
RECURSIVE Groups(_, _)
Groups(bodies_arg, captured_arg) ==
    The({
    IF bodies = <<>> THEN <<>>
    ELSE (IF Head(captured) THEN <<Head(bodies)>> ELSE <<>>)
         \o Groups(Tail(bodies), Tail(captured))
    : bodies \in {bodies_arg}, captured \in {captured_arg}})

\* re.sub(pattern, r'\<repl>', s) from index p on: the text up to the
\* leftmost match is kept, the match becomes its group repl, and the scan
\* goes on after the match
RECURSIVE SubFrom(_, _, _, _)
SubFrom(re_arg, repl_arg, s_arg, p_arg) ==
    The({
    LET starts == {q \in p..Len(s) : TagMatch(s, q, re.opens).ok}
    IN  IF starts = {} THEN SubSeq(s, p, Len(s))
        ELSE The({The({SubSeq(s, p, q - 1)
                       \o Groups(m.bodies, re.captured)[repl]
                       \o SubFrom(re, repl, s, m.end + 1)
                       : m \in {TagMatch(s, q, re.opens)}})
                  : q \in {Least(starts)}})
    : re \in {re_arg}, repl \in {repl_arg}, s \in {s_arg}, p \in {p_arg}})

re_sub(re, repl, s) == SubFrom(re, repl, s, 1)

\* r'\[PCUS ([^\]]+)\] \[UPCUSA ([^\]]+)\]'
TitlePcusUpcusa ==
    [opens |-> <<PCUS_OPEN, UPCUSA_OPEN>>, captured |-> <<TRUE, TRUE>>]

\* r'\[UPCUSA ([^\]]+)\] \[PCUS ([^\]]+)\]'
TitleUpcusaPcus ==
    [opens |-> <<UPCUSA_OPEN, PCUS_OPEN>>, captured |-> <<TRUE, TRUE>>]

\* r'\[PCUS [^\]]+\] \[UPCUSA ([^\]]+)\]'
ContentPcusUpcusa ==
    [opens |-> <<PCUS_OPEN, UPCUSA_OPEN>>, captured |-> <<FALSE, TRUE>>]

\* r'\[UPCUSA ([^\]]+)\] \[PCUS [^\]]+\]'
ContentUpcusaPcus ==
    [opens |-> <<UPCUSA_OPEN, PCUS_OPEN>>, captured |-> <<TRUE, FALSE>>]

\* r'\[PCUS ([^\]]+)\]'
LonePcus == [opens |-> <<PCUS_OPEN>>, captured |-> <<TRUE>>]

\* r'\[UPCUSA ([^\]]+)\]'
LoneUpcusa == [opens |-> <<UPCUSA_OPEN>>, captured |-> <<TRUE>>]

\* the index of the "]" closing a match of r'\[\d+\.\d+\]' at p, 0 when none
RefMatchEnd(s_arg, p_arg) ==
    The({
    LET d1 == RunEnd(s, p + 1, Digits)
        d2 == RunEnd(s, d1 + 1, Digits)
    IN  IF /\ MatchAt(s, p, <<"[">>)
           /\ d1 > p + 1
           /\ MatchAt(s, d1, <<".">>)
           /\ d2 > d1 + 1
           /\ MatchAt(s, d2, <<"]">>)
        THEN d2
        ELSE 0
    : s \in {s_arg}, p \in {p_arg}})

\* re.sub(r'\[\d+\.\d+\]', '', s) from index p on
RECURSIVE StripRefsFrom(_, _)
StripRefsFrom(s_arg, p_arg) ==
    The({
    LET starts == {q \in p..Len(s) : RefMatchEnd(s, q) # 0}
    IN  IF starts = {} THEN SubSeq(s, p, Len(s))
        ELSE LET q == Least(starts)
             IN  SubSeq(s, p, q - 1) \o StripRefsFrom(s, RefMatchEnd(s, q) + 1)
    : s \in {s_arg}, p \in {p_arg}})

StripRefs(s) == StripRefsFrom(s, 1)

\* re.sub(r'\s+', ' ', s): every maximal run of whitespace becomes one
\* space, that is, the first character of a run becomes a space and the
\* others go
CollapseWs(s_arg) ==
    The({
    LET marked == [k \in 1..Len(s) |->
                     [char  |-> IF s[k] \in WhiteSpace THEN " " ELSE s[k],
                      stays |-> \/ s[k] \notin WhiteSpace
                                \/ k = 1
                                \/ s[k - 1] \notin WhiteSpace]]
        kept   == SelectSeq(marked, LAMBDA e : e.stays)
    IN  [k \in 1..Len(kept) |-> kept[k].char]
    : s \in {s_arg}})

(***************************************************************************)
(* clean_title and clean_content                                           *)
(***************************************************************************)

\* TitleSubs with the lone rules run before the paired rules
TitleSubs_LoneFirst(title_arg) ==
    The({
    re_sub(TitleUpcusaPcus, 1,
        re_sub(TitlePcusUpcusa, 2,
            re_sub(LoneUpcusa, 1,
                re_sub(LonePcus, 1, title))))
    : title \in {title_arg}})

\* the four substitutions of clean_title, before the final strip()
TitleSubs(title_arg) ==
    The({
    re_sub(LoneUpcusa, 1,
        re_sub(LonePcus, 1,
            re_sub(TitleUpcusaPcus, 1,
                re_sub(TitlePcusUpcusa, 2, title))))
    : title \in {title_arg}})

clean_title(title) == strip(TitleSubs(title))

\* ContentSubs whose first rule captures the PCUS body of the pair
ContentSubs_KeepsPcusOfPair(text_arg) ==
    The({
    re_sub(LoneUpcusa, 1,
        re_sub(LonePcus, 1,
            re_sub(ContentUpcusaPcus, 1,
                re_sub([opens |-> <<PCUS_OPEN, UPCUSA_OPEN>>,
                        captured |-> <<TRUE, FALSE>>], 1, text))))
    : text \in {text_arg}})

\* the four variant substitutions of clean_content
ContentSubs(text_arg) ==
    The({
    re_sub(LoneUpcusa, 1,
        re_sub(LonePcus, 1,
            re_sub(ContentUpcusaPcus, 1,
                re_sub(ContentPcusUpcusa, 1, text))))
    : text \in {text_arg}})

\* the removal of the title from the beginning of the content
StripTitlePrefix(text_arg, title_arg) ==
    The({
    IF title # None /\ title[1] # <<>>
    THEN The({IF startswith(text, clean_title_text)
              THEN strip(SubSeq(text, Len(clean_title_text) + 1, Len(text)))
              ELSE text
              : clean_title_text \in {clean_title(title[1])}})
    ELSE text
    : text \in {text_arg}, title \in {title_arg}})

clean_content(content_lines_arg, title_arg) ==
    The({
    strip(CollapseWs(
        StripTitlePrefix(
            ContentSubs(StripRefs(join(<<" ">>, content_lines))),
            title)))
    : content_lines \in {content_lines_arg}, title \in {title_arg}})

(***************************************************************************)
(* get_topics and the table chapter_keywords                               *)
(***************************************************************************)

UpperCase ==
    <<"A", "B", "C", "D", "E", "F", "G", "H", "I", "J", "K", "L", "M", "N",
    "O", "P", "Q", "R", "S", "T", "U", "V", "W", "X", "Y", "Z">>

LowerCase ==
    <<"a", "b", "c", "d", "e", "f", "g", "h", "i", "j", "k", "l", "m", "n",
    "o", "p", "q", "r", "s", "t", "u", "v", "w", "x", "y", "z">>

\* str.lower() on one character
lower_char(c_arg) ==
    The({
    IF \E k \in 1..Len(UpperCase) : UpperCase[k] = c
    THEN LowerCase[CHOOSE k \in 1..Len(UpperCase) : UpperCase[k] = c]
    ELSE c
    : c \in {c_arg}})

\* str.lower()
lower(s_arg) ==
    The({
    [k \in 1..Len(s) |-> lower_char(s[k])]
    : s \in {s_arg}})

\* the dict chapter_keywords in insertion order: keyword, topic_list
chapter_keywords == <<
    \* "holy scripture": ["scripture", "revelation", "authority", "word of god"]
    [keyword |-> <<"h", "o", "l", "y", " ", "s", "c", "r", "i", "p", "t", "u", "r",
        "e">>,
     topic_list |-> <<
        <<"s", "c", "r", "i", "p", "t", "u", "r", "e">>,
        <<"r", "e", "v", "e", "l", "a", "t", "i", "o", "n">>,
        <<"a", "u", "t", "h", "o", "r", "i", "t", "y">>,
        <<"w", "o", "r", "d", " ", "o", "f", " ", "g", "o", "d">> >>],
    \* "god": ["god", "trinity", "attributes"]
    [keyword |-> <<"g", "o", "d">>,
     topic_list |-> <<
        <<"g", "o", "d">>,
        <<"t", "r", "i", "n", "i", "t", "y">>,
        <<"a", "t", "t", "r", "i", "b", "u", "t", "e", "s">> >>],
    \* "eternal decree": ["predestination", "election", "sovereignty", "decrees"]
    [keyword |-> <<"e", "t", "e", "r", "n", "a", "l", " ", "d", "e", "c", "r", "e",
        "e">>,
     topic_list |-> <<
        <<"p", "r", "e", "d", "e", "s", "t", "i", "n", "a", "t", "i", "o",
        "n">>,
        <<"e", "l", "e", "c", "t", "i", "o", "n">>,
        <<"s", "o", "v", "e", "r", "e", "i", "g", "n", "t", "y">>,
        <<"d", "e", "c", "r", "e", "e", "s">> >>],
    \* "creation": ["creation", "providence"]
    [keyword |-> <<"c", "r", "e", "a", "t", "i", "o", "n">>,
     topic_list |-> <<
        <<"c", "r", "e", "a", "t", "i", "o", "n">>,
        <<"p", "r", "o", "v", "i", "d", "e", "n", "c", "e">> >>],
    \* "providence": ["providence", "sovereignty"]
    [keyword |-> <<"p", "r", "o", "v", "i", "d", "e", "n", "c", "e">>,
     topic_list |-> <<
        <<"p", "r", "o", "v", "i", "d", "e", "n", "c", "e">>,
        <<"s", "o", "v", "e", "r", "e", "i", "g", "n", "t", "y">> >>],
    \* "fall": ["sin", "fall", "adam", "original sin"]
    [keyword |-> <<"f", "a", "l", "l">>,
     topic_list |-> <<
        <<"s", "i", "n">>,
        <<"f", "a", "l", "l">>,
        <<"a", "d", "a", "m">>,
        <<"o", "r", "i", "g", "i", "n", "a", "l", " ", "s", "i", "n">> >>],
    \* "covenant": ["covenant", "grace", "works"]
    [keyword |-> <<"c", "o", "v", "e", "n", "a", "n", "t">>,
     topic_list |-> <<
        <<"c", "o", "v", "e", "n", "a", "n", "t">>,
        <<"g", "r", "a", "c", "e">>,
        <<"w", "o", "r", "k", "s">> >>],
    \* "christ": ["christ", "mediator", "jesus", "incarnation", "atonement"]
    [keyword |-> <<"c", "h", "r", "i", "s", "t">>,
     topic_list |-> <<
        <<"c", "h", "r", "i", "s", "t">>,
        <<"m", "e", "d", "i", "a", "t", "o", "r">>,
        <<"j", "e", "s", "u", "s">>,
        <<"i", "n", "c", "a", "r", "n", "a", "t", "i", "o", "n">>,
        <<"a", "t", "o", "n", "e", "m", "e", "n", "t">> >>],
    \* "free will": ["free will", "depravity"]
    [keyword |-> <<"f", "r", "e", "e", " ", "w", "i", "l", "l">>,
     topic_list |-> <<
        <<"f", "r", "e", "e", " ", "w", "i", "l", "l">>,
        <<"d", "e", "p", "r", "a", "v", "i", "t", "y">> >>],
    \* "calling": ["calling", "regeneration", "holy spirit"]
    [keyword |-> <<"c", "a", "l", "l", "i", "n", "g">>,
     topic_list |-> <<
        <<"c", "a", "l", "l", "i", "n", "g">>,
        <<"r", "e", "g", "e", "n", "e", "r", "a", "t", "i", "o", "n">>,
        <<"h", "o", "l", "y", " ", "s", "p", "i", "r", "i", "t">> >>],
    \* "justification": ["justification", "faith", "salvation"]
    [keyword |-> <<"j", "u", "s", "t", "i", "f", "i", "c", "a", "t", "i", "o",
        "n">>,
     topic_list |-> <<
        <<"j", "u", "s", "t", "i", "f", "i", "c", "a", "t", "i", "o",
        "n">>,
        <<"f", "a", "i", "t", "h">>,
        <<"s", "a", "l", "v", "a", "t", "i", "o", "n">> >>],
    \* "adoption": ["adoption", "sonship"]
    [keyword |-> <<"a", "d", "o", "p", "t", "i", "o", "n">>,
     topic_list |-> <<
        <<"a", "d", "o", "p", "t", "i", "o", "n">>,
        <<"s", "o", "n", "s", "h", "i", "p">> >>],
    \* "sanctification": ["sanctification", "holiness"]
    [keyword |-> <<"s", "a", "n", "c", "t", "i", "f", "i", "c", "a", "t", "i", "o",
        "n">>,
     topic_list |-> <<
        <<"s", "a", "n", "c", "t", "i", "f", "i", "c", "a", "t", "i", "o",
        "n">>,
        <<"h", "o", "l", "i", "n", "e", "s", "s">> >>],
    \* "faith": ["faith", "belief"]
    [keyword |-> <<"f", "a", "i", "t", "h">>,
     topic_list |-> <<
        <<"f", "a", "i", "t", "h">>,
        <<"b", "e", "l", "i", "e", "f">> >>],
    \* "repentance": ["repentance"]
    [keyword |-> <<"r", "e", "p", "e", "n", "t", "a", "n", "c", "e">>,
     topic_list |-> <<
        <<"r", "e", "p", "e", "n", "t", "a", "n", "c", "e">> >>],
    \* "good works": ["good works", "obedience"]
    [keyword |-> <<"g", "o", "o", "d", " ", "w", "o", "r", "k", "s">>,
     topic_list |-> <<
        <<"g", "o", "o", "d", " ", "w", "o", "r", "k", "s">>,
        <<"o", "b", "e", "d", "i", "e", "n", "c", "e">> >>],
    \* "perseverance": ["perseverance", "assurance"]
    [keyword |-> <<"p", "e", "r", "s", "e", "v", "e", "r", "a", "n", "c", "e">>,
     topic_list |-> <<
        <<"p", "e", "r", "s", "e", "v", "e", "r", "a", "n", "c", "e">>,
        <<"a", "s", "s", "u", "r", "a", "n", "c", "e">> >>],
    \* "assurance": ["assurance", "salvation"]
    [keyword |-> <<"a", "s", "s", "u", "r", "a", "n", "c", "e">>,
     topic_list |-> <<
        <<"a", "s", "s", "u", "r", "a", "n", "c", "e">>,
        <<"s", "a", "l", "v", "a", "t", "i", "o", "n">> >>],
    \* "law": ["law", "ten commandments", "moral law"]
    [keyword |-> <<"l", "a", "w">>,
     topic_list |-> <<
        <<"l", "a", "w">>,
        <<"t", "e", "n", " ", "c", "o", "m", "m", "a", "n", "d", "m", "e",
        "n", "t", "s">>,
        <<"m", "o", "r", "a", "l", " ", "l", "a", "w">> >>],
    \* "liberty": ["liberty", "conscience", "freedom"]
    [keyword |-> <<"l", "i", "b", "e", "r", "t", "y">>,
     topic_list |-> <<
        <<"l", "i", "b", "e", "r", "t", "y">>,
        <<"c", "o", "n", "s", "c", "i", "e", "n", "c", "e">>,
        <<"f", "r", "e", "e", "d", "o", "m">> >>],
    \* "worship": ["worship", "sabbath"]
    [keyword |-> <<"w", "o", "r", "s", "h", "i", "p">>,
     topic_list |-> <<
        <<"w", "o", "r", "s", "h", "i", "p">>,
        <<"s", "a", "b", "b", "a", "t", "h">> >>],
    \* "oath": ["oaths", "vows"]
    [keyword |-> <<"o", "a", "t", "h">>,
     topic_list |-> <<
        <<"o", "a", "t", "h", "s">>,
        <<"v", "o", "w", "s">> >>],
    \* "magistrate": ["civil government", "authority"]
    [keyword |-> <<"m", "a", "g", "i", "s", "t", "r", "a", "t", "e">>,
     topic_list |-> <<
        <<"c", "i", "v", "i", "l", " ", "g", "o", "v", "e", "r", "n", "m",
        "e", "n", "t">>,
        <<"a", "u", "t", "h", "o", "r", "i", "t", "y">> >>],
    \* "marriage": ["marriage", "divorce"]
    [keyword |-> <<"m", "a", "r", "r", "i", "a", "g", "e">>,
     topic_list |-> <<
        <<"m", "a", "r", "r", "i", "a", "g", "e">>,
        <<"d", "i", "v", "o", "r", "c", "e">> >>],
    \* "church": ["church", "ecclesiology"]
    [keyword |-> <<"c", "h", "u", "r", "c", "h">>,
     topic_list |-> <<
        <<"c", "h", "u", "r", "c", "h">>,
        <<"e", "c", "c", "l", "e", "s", "i", "o", "l", "o", "g", "y">> >>],
    \* "communion": ["communion of saints", "fellowship"]
    [keyword |-> <<"c", "o", "m", "m", "u", "n", "i", "o", "n">>,
     topic_list |-> <<
        <<"c", "o", "m", "m", "u", "n", "i", "o", "n", " ", "o", "f", " ",
        "s", "a", "i", "n", "t", "s">>,
        <<"f", "e", "l", "l", "o", "w", "s", "h", "i", "p">> >>],
    \* "sacrament": ["sacraments", "ordinances"]
    [keyword |-> <<"s", "a", "c", "r", "a", "m", "e", "n", "t">>,
     topic_list |-> <<
        <<"s", "a", "c", "r", "a", "m", "e", "n", "t", "s">>,
        <<"o", "r", "d", "i", "n", "a", "n", "c", "e", "s">> >>],
    \* "baptism": ["baptism"]
    [keyword |-> <<"b", "a", "p", "t", "i", "s", "m">>,
     topic_list |-> <<
        <<"b", "a", "p", "t", "i", "s", "m">> >>],
    \* "lord's supper": ["lord"s supper", "eucharist", "communion"]
    [keyword |-> <<"l", "o", "r", "d", "'", "s", " ", "s", "u", "p", "p", "e",
        "r">>,
     topic_list |-> <<
        <<"l", "o", "r", "d", "'", "s", " ", "s", "u", "p", "p", "e",
        "r">>,
        <<"e", "u", "c", "h", "a", "r", "i", "s", "t">>,
        <<"c", "o", "m", "m", "u", "n", "i", "o", "n">> >>],
    \* "censure": ["church discipline", "excommunication"]
    [keyword |-> <<"c", "e", "n", "s", "u", "r", "e">>,
     topic_list |-> <<
        <<"c", "h", "u", "r", "c", "h", " ", "d", "i", "s", "c", "i", "p",
        "l", "i", "n", "e">>,
        <<"e", "x", "c", "o", "m", "m", "u", "n", "i", "c", "a", "t", "i",
        "o", "n">> >>],
    \* "synod": ["synods", "councils", "church government"]
    [keyword |-> <<"s", "y", "n", "o", "d">>,
     topic_list |-> <<
        <<"s", "y", "n", "o", "d", "s">>,
        <<"c", "o", "u", "n", "c", "i", "l", "s">>,
        <<"c", "h", "u", "r", "c", "h", " ", "g", "o", "v", "e", "r", "n",
        "m", "e", "n", "t">> >>],
    \* "death": ["death", "resurrection", "intermediate state"]
    [keyword |-> <<"d", "e", "a", "t", "h">>,
     topic_list |-> <<
        <<"d", "e", "a", "t", "h">>,
        <<"r", "e", "s", "u", "r", "r", "e", "c", "t", "i", "o", "n">>,
        <<"i", "n", "t", "e", "r", "m", "e", "d", "i", "a", "t", "e", " ",
        "s", "t", "a", "t", "e">> >>],
    \* "judgment": ["last judgment", "final judgment", "eschatology"]
    [keyword |-> <<"j", "u", "d", "g", "m", "e", "n", "t">>,
     topic_list |-> <<
        <<"l", "a", "s", "t", " ", "j", "u", "d", "g", "m", "e", "n",
        "t">>,
        <<"f", "i", "n", "a", "l", " ", "j", "u", "d", "g", "m", "e", "n",
        "t">>,
        <<"e", "s", "c", "h", "a", "t", "o", "l", "o", "g", "y">> >>]
>>

THEOLOGY == <<"t", "h", "e", "o", "l", "o", "g", "y">>

\* the loop of get_topics over the entries k.. of chapter_keywords
RECURSIVE TopicsFrom(_, _)
TopicsFrom(title_lower_arg, k_arg) ==
    The({
    IF k > Len(chapter_keywords) THEN <<>>
    ELSE (IF Contains(title_lower, chapter_keywords[k].keyword)
          THEN chapter_keywords[k].topic_list
          ELSE <<>>)
         \o TopicsFrom(title_lower, k + 1)
    : title_lower \in {title_lower_arg}, k \in {k_arg}})

get_topics(title_arg) ==
    The({
    LET topics == TopicsFrom(lower(title), 1)
    IN  IF topics # <<>> THEN topics ELSE <<THEOLOGY>>
    : title \in {title_arg}})

(***************************************************************************)
(* The line patterns of parse_westminster                                  *)
(***************************************************************************)

\* the alternatives after the numeral in the first book-list pattern
NumberedBooks == {
    <<"S", "a", "m", "u", "e", "l">>,
    <<"K", "i", "n", "g", "s">>,
    <<"C", "h", "r", "o", "n", "i", "c", "l", "e", "s">>,
    <<"C", "o", "r", "i", "n", "t", "h", "i", "a", "n", "s">>,
    <<"T", "h", "e", "s", "s", "a", "l", "o", "n", "i", "a", "n", "s">>,
    <<"T", "i", "m", "o", "t", "h", "y">>,
    <<"P", "e", "t", "e", "r">>,
    <<"J", "o", "h", "n">>
}

\* the alternatives of the second book-list pattern
BookNames == {
    <<"G", "e", "n", "e", "s", "i", "s">>,
    <<"E", "x", "o", "d", "u", "s">>,
    <<"L", "e", "v", "i", "t", "i", "c", "u", "s">>,
    <<"N", "u", "m", "b", "e", "r", "s">>,
    <<"D", "e", "u", "t", "e", "r", "o", "n", "o", "m", "y">>,
    <<"J", "o", "s", "h", "u", "a">>,
    <<"J", "u", "d", "g", "e", "s">>,
    <<"R", "u", "t", "h">>,
    <<"S", "a", "m", "u", "e", "l">>,
    <<"K", "i", "n", "g", "s">>,
    <<"C", "h", "r", "o", "n", "i", "c", "l", "e", "s">>,
    <<"E", "z", "r", "a">>,
    <<"N", "e", "h", "e", "m", "i", "a", "h">>,
    <<"E", "s", "t", "h", "e", "r">>,
    <<"J", "o", "b">>,
    <<"P", "s", "a", "l", "m", "s">>,
    <<"P", "r", "o", "v", "e", "r", "b", "s">>,
    <<"E", "c", "c", "l", "e", "s", "i", "a", "s", "t", "e", "s">>,
    <<"I", "s", "a", "i", "a", "h">>,
    <<"J", "e", "r", "e", "m", "i", "a", "h">>,
    <<"L", "a", "m", "e", "n", "t", "a", "t", "i", "o", "n", "s">>,
    <<"E", "z", "e", "k", "i", "e", "l">>,
    <<"D", "a", "n", "i", "e", "l">>,
    <<"H", "o", "s", "e", "a">>,
    <<"J", "o", "e", "l">>,
    <<"A", "m", "o", "s">>,
    <<"O", "b", "a", "d", "i", "a", "h">>,
    <<"J", "o", "n", "a", "h">>,
    <<"M", "i", "c", "a", "h">>,
    <<"N", "a", "h", "u", "m">>,
    <<"H", "a", "b", "a", "k", "k", "u", "k">>,
    <<"Z", "e", "p", "h", "a", "n", "i", "a", "h">>,
    <<"H", "a", "g", "g", "a", "i">>,
    <<"Z", "e", "c", "h", "a", "r", "i", "a", "h">>,
    <<"M", "a", "l", "a", "c", "h", "i">>,
    <<"M", "a", "t", "t", "h", "e", "w">>,
    <<"M", "a", "r", "k">>,
    <<"L", "u", "k", "e">>,
    <<"J", "o", "h", "n">>,
    <<"A", "c", "t", "s">>,
    <<"R", "o", "m", "a", "n", "s">>,
    <<"C", "o", "r", "i", "n", "t", "h", "i", "a", "n", "s">>,
    <<"G", "a", "l", "a", "t", "i", "a", "n", "s">>,
    <<"E", "p", "h", "e", "s", "i", "a", "n", "s">>,
    <<"P", "h", "i", "l", "i", "p", "p", "i", "a", "n", "s">>,
    <<"C", "o", "l", "o", "s", "s", "i", "a", "n", "s">>,
    <<"T", "h", "e", "s", "s", "a", "l", "o", "n", "i", "a", "n", "s">>,
    <<"T", "i", "m", "o", "t", "h", "y">>,
    <<"T", "i", "t", "u", "s">>,
    <<"P", "h", "i", "l", "e", "m", "o", "n">>,
    <<"H", "e", "b", "r", "e", "w", "s">>,
    <<"J", "a", "m", "e", "s">>,
    <<"P", "e", "t", "e", "r">>,
    <<"J", "u", "d", "e">>,
    <<"R", "e", "v", "e", "l", "a", "t", "i", "o", "n">>
}

\* 'CHAPTER'
CHAPTER ==
    <<"C", "H", "A", "P", "T", "E", "R">>

\* 'CHAPTER '
CHAPTER_SP ==
    <<"C", "H", "A", "P", "T", "E", "R", " ">>

\* ' (PCUS)'
PCUS_PAREN ==
    <<" ", "(", "P", "C", "U", "S", ")">>

\* 'Of '
OF_SP ==
    <<"O", "f", " ">>

\* 'Presbyterian Church'
PRESBYTERIAN_CHURCH ==
    <<"P", "r", "e", "s", "b", "y", "t", "e", "r", "i", "a", "n", " ", "C",
    "h", "u", "r", "c", "h">>

\* 'in the United States'
IN_THE_UNITED_STATES ==
    <<"i", "n", " ", "t", "h", "e", " ", "U", "n", "i", "t", "e", "d", " ",
    "S", "t", "a", "t", "e", "s">>

\* 'The United Presbyterian'
THE_UNITED_PRESBYTERIAN ==
    <<"T", "h", "e", " ", "U", "n", "i", "t", "e", "d", " ", "P", "r", "e",
    "s", "b", "y", "t", "e", "r", "i", "a", "n">>

\* 'Of the Old Testament'
OF_THE_OLD_TESTAMENT ==
    <<"O", "f", " ", "t", "h", "e", " ", "O", "l", "d", " ", "T", "e", "s",
    "t", "a", "m", "e", "n", "t">>

\* 'Of the New Testament'
OF_THE_NEW_TESTAMENT ==
    <<"O", "f", " ", "t", "h", "e", " ", "N", "e", "w", " ", "T", "e", "s",
    "t", "a", "m", "e", "n", "t">>

\* the index after the maximal run of I, V, X that starts at p
RomanEnd(s, p) == RunEnd(s, p, {"I", "V", "X"})

\* re.match(r'^CHAPTER [IVX]+ \(PCUS\)', line)
IsChapterHeader(line_arg) ==
    The({
    LET e == RomanEnd(line, Len(CHAPTER_SP) + 1)
    IN  /\ startswith(line, CHAPTER_SP)
        /\ e > Len(CHAPTER_SP) + 1
        /\ MatchAt(line, e, PCUS_PAREN)
    : line \in {line_arg}})

\* re.match(r'^[IVX]+ (Samuel|Kings|...|John)', line)
IsNumberedBook(line_arg) ==
    The({
    LET e == RomanEnd(line, 1)
    IN  /\ e > 1
        /\ MatchAt(line, e, <<" ">>)
        /\ \E name \in NumberedBooks : MatchAt(line, e + 1, name)
    : line \in {line_arg}})

\* re.match(r'^(Genesis|Exodus|...|Revelation)', line)
IsBookName(line_arg) ==
    The({
    \E name \in BookNames : startswith(line, name)
    : line \in {line_arg}})

\* the condition of "Skip empty lines and header lines"
IsSkipped(line_arg, current_title_arg) ==
    The({
    \/ line = <<>>
    \/ startswith(line, PRESBYTERIAN_CHURCH)
    \/ startswith(line, IN_THE_UNITED_STATES)
    \/ startswith(line, THE_UNITED_PRESBYTERIAN)
    \/ startswith(line, CHAPTER)
    \/ startswith(line, OF_THE_OLD_TESTAMENT)
    \/ startswith(line, OF_THE_NEW_TESTAMENT)
    \/ (startswith(line, OF_SP) /\ current_title = Some(line))
    : line \in {line_arg}, current_title \in {current_title_arg}})

(***************************************************************************)
(* parse_westminster.  lines is indexed from 0 as in the source.           *)
(***************************************************************************)

At(lines, k) == lines[k + 1]

Min(a, b) == IF a < b THEN a ELSE b

\* the lookahead is range(i+1, min(i+10, len(lines)))
LookaheadSpan == 10

\* the body of  for j in range(j, stop)  of the title lookahead
RECURSIVE TitleParts(_, _, _, _)
TitleParts(lines_arg, j_arg, stop_arg, title_parts_arg) ==
    The({
    IF j >= stop THEN title_parts
    ELSE LET title_line == strip(At(lines, j))
         IN  IF startswith(title_line, OF_SP)
             THEN TitleParts(lines, j + 1, stop, Append(title_parts, title_line))
             ELSE IF /\ title_parts # <<>>
                     /\ title_line # <<>>
                     /\ ~startswith(title_line, <<"[">>)
             THEN TitleParts(lines, j + 1, stop, Append(title_parts, title_line))
             ELSE IF title_parts # <<>> THEN title_parts
             ELSE TitleParts(lines, j + 1, stop, title_parts)
    : lines \in {lines_arg}, j \in {j_arg}, stop \in {stop_arg},
      title_parts \in {title_parts_arg}})

\* LookaheadTitle with the lookahead one line too long
LookaheadTitle_OneTooFar(lines_arg, i_arg) ==
    The({
    LET title_parts ==
            TitleParts(lines, i + 1, Min(i + LookaheadSpan + 1, Len(lines)), <<>>)
    IN  IF title_parts # <<>> THEN Some(join(<<" ">>, title_parts)) ELSE None
    : lines \in {lines_arg}, i \in {i_arg}})

\* "Look for title in next few lines": the new current_title at header i
LookaheadTitle(lines_arg, i_arg) ==
    The({
    LET title_parts ==
            TitleParts(lines, i + 1, Min(i + LookaheadSpan, Len(lines)), <<>>)
    IN  IF title_parts # <<>> THEN Some(join(<<" ">>, title_parts)) ELSE None
    : lines \in {lines_arg}, i \in {i_arg}})

\* the int digit d as a character
DigitChar(d_arg) ==
    The({
    <<"0", "1", "2", "3", "4", "5", "6", "7", "8", "9">>[d + 1]
    : d \in {d_arg}})

\* str(n) for an int n >= 0
RECURSIVE str(_)
str(n_arg) ==
    The({
    IF n < 10 THEN <<DigitChar(n)>>
    ELSE str(n \div 10) \o <<DigitChar(n % 10)>>
    : n \in {n_arg}})

\* the dict appended to sections
Section(current_chapter_arg, current_title_arg, content_text_arg) ==
    The({
    [chapter |-> str(current_chapter[1]),
     title   |-> clean_title(current_title[1]),
     content |-> content_text,
     topics  |-> get_topics(current_title[1])]
    : current_chapter \in {current_chapter_arg},
      current_title \in {current_title_arg},
      content_text \in {content_text_arg}})

\* SavePrevious with the sections numbered by their place in the output
\* instead of by the header counter
SavePrevious_NumberedByOutput(sections_arg, current_chapter_arg, current_title_arg, current_content_arg) ==
    The({
    IF current_chapter # None /\ current_title # None /\ current_title[1] # <<>>
    THEN The({IF content_text # <<>>
              THEN Append(sections,
                          Section(Some(Len(sections) + 1), current_title,
                                  content_text))
              ELSE sections
              : content_text \in {clean_content(current_content, current_title)}})
    ELSE sections
    : sections \in {sections_arg}, current_chapter \in {current_chapter_arg},
      current_title \in {current_title_arg},
      current_content \in {current_content_arg}})

\* "Save previous chapter if exists": sections after the header branch's save
SavePrevious(sections_arg, current_chapter_arg, current_title_arg, current_content_arg) ==
    The({
    IF current_chapter # None /\ current_title # None /\ current_title[1] # <<>>
    THEN The({IF content_text # <<>>
              THEN Append(sections,
                          Section(current_chapter, current_title, content_text))
              ELSE sections
              : content_text \in {clean_content(current_content, current_title)}})
    ELSE sections
    : sections \in {sections_arg}, current_chapter \in {current_chapter_arg},
      current_title \in {current_title_arg},
      current_content \in {current_content_arg}})

\* SaveLast with the last chapter forgotten
SaveLast_Forgotten(sections_arg, current_chapter_arg, current_title_arg, current_content_arg) ==
    The({
    sections
    : sections \in {sections_arg}, current_chapter \in {current_chapter_arg},
      current_title \in {current_title_arg},
      current_content \in {current_content_arg}})

\* "Don't forget the last chapter": sections after the loop
SaveLast(sections_arg, current_chapter_arg, current_title_arg, current_content_arg) ==
    The({
    IF current_chapter # None /\ current_title # None /\ current_title[1] # <<>>
    THEN The({IF content_text # <<>>
              THEN Append(sections,
                          Section(current_chapter, current_title, content_text))
              ELSE sections
              : content_text \in {clean_content(current_content, current_title)}})
    ELSE sections
    : sections \in {sections_arg}, current_chapter \in {current_chapter_arg},
      current_title \in {current_title_arg},
      current_content \in {current_content_arg}})

\* characters in code point order, for the comparison of str values
CodePoints ==
    <<"\t", "\n", "\f", "\r", " ", "'", "(", ")", ".",
      "0", "1", "2", "3", "4", "5", "6", "7", "8", "9", ":",
      "A", "B", "C", "D", "E", "F", "G", "H", "I", "J", "K", "L", "M",
      "N", "O", "P", "Q", "R", "S", "T", "U", "V", "W", "X", "Y", "Z",
      "[", "]",
      "a", "b", "c", "d", "e", "f", "g", "h", "i", "j", "k", "l", "m",
      "n", "o", "p", "q", "r", "s", "t", "u", "v", "w", "x", "y", "z">>

ord(c_arg) ==
    The({
    CHOOSE k \in 1..Len(CodePoints) : CodePoints[k] = c
    : c \in {c_arg}})

\* s < t for str values
RECURSIVE str_less(_, _)
str_less(s_arg, t_arg) ==
    The({
    IF t = <<>> THEN FALSE
    ELSE IF s = <<>> THEN TRUE
    ELSE IF Head(s) = Head(t) THEN str_less(Tail(s), Tail(t))
    ELSE ord(Head(s)) < ord(Head(t))
    : s \in {s_arg}, t \in {t_arg}})

\* sorted(list(S)) for a set S of str values
RECURSIVE sorted(_)
sorted(S_arg) ==
    The({
    IF S = {} THEN <<>>
    ELSE LET least == CHOOSE x \in S : \A y \in S \ {x} : str_less(x, y)
         IN  <<least>> \o sorted(S \ {least})
    : S \in {S_arg}})

\* "Collect all unique topics": the set all_topics
AllTopics(sections_arg) ==
    The({
    UNION {{sections[k].topics[n] : n \in 1..Len(sections[k].topics)} :
           k \in 1..Len(sections)}
    : sections \in {sections_arg}})

\* the topics of all sections, one list after the other
RECURSIVE ConcatTopics(_)
ConcatTopics(sections_arg) ==
    The({
    IF sections = <<>> THEN <<>>
    ELSE Head(sections).topics \o ConcatTopics(Tail(sections))
    : sections \in {sections_arg}})

\* Confession with the topics neither deduplicated nor sorted
Confession_TopicsAsListed(sections_arg) ==
    The({
    [title    |-> "Westminster Confession of Faith",
     type     |-> "confession",
     date     |-> "1647",
     topics   |-> ConcatTopics(sections),
     sections |-> sections]
    : sections \in {sections_arg}})

\* "Create final JSON structure"
Confession(sections_arg) ==
    The({
    [title    |-> "Westminster Confession of Faith",
     type     |-> "confession",
     date     |-> "1647",
     topics   |-> sorted(AllTopics(sections)),
     sections |-> sections]
    : sections \in {sections_arg}})

(***************************************************************************)
(* The state of parse_westminster: its locals, the position pc in it       *)
(* ("loop" in the while loop, "done" once the document is written, "idle"  *)
(* when it is not running) and the document confession that is written.   *)
(* A helper called on its own, out of parse_westminster, has the state     *)
(* call: None when no helper is called on its own, else the record of the  *)
(* helper fn ("pending" before the call), its argument arg and title, and  *)
(* its result ret.                                                         *)
(***************************************************************************)

VARIABLES lines, i, sections, current_chapter, current_title,
          current_content, chapter_num, confession, pc, call

vars == <<lines, i, sections, current_chapter, current_title,
          current_content, chapter_num, confession, pc, call>>

\* 'CHAPTER I (PCUS)\n'
LineHeader ==
    <<"C", "H", "A", "P", "T", "E", "R", " ", "I", " ", "(", "P", "C", "U",
    "S", ")", "\n">>

\* 'Of God\n'
LineOfGod ==
    <<"O", "f", " ", "G", "o", "d", "\n">>

\* 'Of [PCUS God] [UPCUSA Law]\n'
LineOfVariant ==
    <<"O", "f", " ", "[", "P", "C", "U", "S", " ", "G", "o", "d", "]", " ",
    "[", "U", "P", "C", "U", "S", "A", " ", "L", "a", "w", "]", "\n">>

\* '\n'
LineEmpty ==
    <<"\n">>

\* '[6.001] All men\n'
LineRef ==
    <<"[", "6", ".", "0", "0", "1", "]", " ", "A", "l", "l", " ", "m", "e",
    "n", "\n">>

\* ' sin\n'
LineBody ==
    <<" ", "s", "i", "n", "\n">>

\* 'I Corinthians 11:3\n'
LineNumberedBook ==
    <<"I", " ", "C", "o", "r", "i", "n", "t", "h", "i", "a", "n", "s", " ",
    "1", "1", ":", "3", "\n">>

\* 'Genesis\n'
LineBookName ==
    <<"G", "e", "n", "e", "s", "i", "s", "\n">>

\* 'CHAPTER XI\n'
LineBoilerplate ==
    <<"C", "H", "A", "P", "T", "E", "R", " ", "X", "I", "\n">>
(***************************************************************************)
(* The input files.  The program is deterministic, so the model's only     *)
(* choice is the file; it is drawn from five bounded families.             *)
(***************************************************************************)

\* every kind of line the loop body tells apart
LinePool ==
    {LineHeader, LineOfGod, LineOfVariant, LineEmpty, LineRef, LineBody,
     LineNumberedBook, LineBookName, LineBoilerplate}

\* the lines of a well-formed chapter: header, title, numbered paragraph
ChapterPool == {LineHeader, LineOfGod, LineRef}

\* a chapter: a header alone, or with a paragraph, a title, or both; the
\* last with a title whose topics differ
Chapters ==
    {<<LineHeader>>, <<LineHeader, LineRef>>, <<LineHeader, LineOfGod>>,
     <<LineHeader, LineOfGod, LineRef>>, <<LineHeader, LineOfVariant, LineRef>>}

\* the sequences of at most n elements of S
SeqsUpTo(S, n) == UNION {[1..k -> S] : k \in 0..n}

\* the concatenation of a sequence of sequences
RECURSIVE Concat(_)
Concat(parts) == IF parts = <<>> THEN <<>> ELSE Head(parts) \o Concat(Tail(parts))

\* the longest run of arbitrary lines after a header, or a header and a title
MaxLines == 2

\* the most chapters of a file of chapters
MaxChapters == 3

\* the most numbered paragraphs between a first header and the tail
MaxPad == 9

\* the most lines of the tail
MaxTail == 3

\* a header, or a header and a title, followed by at most MaxLines lines of
\* any kind
AnyFiles ==
    {start \o s : start \in {<<LineHeader>>, <<LineHeader, LineOfGod>>},
                  s \in SeqsUpTo(LinePool, MaxLines)}

\* at most MaxChapters chapters
ChapterFiles == {Concat(c) : c \in SeqsUpTo(Chapters, MaxChapters)}

\* a header, k numbered paragraphs and a tail: the first line that can start
\* a title is k + 1 lines after the header, about where the lookahead ends
PaddedFiles ==
    {<<LineHeader>> \o [n \in 1..k |-> LineRef] \o s :
        k \in (MaxPad - 2)..MaxPad, s \in SeqsUpTo(ChapterPool, MaxTail)}

\* a line of any kind, then fewer chapters: the files with a line before
\* their first header
PreambleFiles ==
    {<<l>> \o Concat(c) : l \in LinePool,
                          c \in SeqsUpTo(Chapters, MaxChapters - 2)}

\* f.readlines() of the input files
Files == AnyFiles \cup ChapterFiles \cup PaddedFiles \cup PreambleFiles

\* the locals as parse_westminster initialises them, for the file input
Start(input) ==
    /\ lines = input
    /\ i = 0
    /\ sections = <<>>
    /\ current_chapter = None
    /\ current_title = None
    /\ current_content = <<>>
    /\ chapter_num = 0
    /\ confession = None
    /\ pc = "loop"
    /\ call = None

Init == \E input \in Files : Start(input)

\* line = lines[i].strip()
Line == strip(At(lines, i))

\* ChapterHeader without the reset of current_content
ChapterHeader_KeepsBuffer ==
    /\ pc = "loop"
    /\ i < Len(lines)
    /\ IsChapterHeader(Line)
    /\ sections' = SavePrevious(sections, current_chapter, current_title,
                                current_content)
    /\ chapter_num' = chapter_num + 1
    /\ current_chapter' = Some(chapter_num + 1)
    /\ current_title' = LookaheadTitle(lines, i)
    /\ i' = i + 1
    /\ UNCHANGED <<lines, current_content, confession, pc, call>>

\* the branch "Detect chapter header" of the loop body
ChapterHeader ==
    /\ pc = "loop"
    /\ i < Len(lines)
    /\ IsChapterHeader(Line)
    /\ sections' = SavePrevious(sections, current_chapter, current_title,
                                current_content)
    /\ chapter_num' = chapter_num + 1
    /\ current_chapter' = Some(chapter_num + 1)
    /\ current_content' = <<>>
    /\ current_title' = LookaheadTitle(lines, i)
    /\ i' = i + 1
    /\ UNCHANGED <<lines, confession, pc, call>>

\* SkipLine that counts every line starting with 'CHAPTER' as a chapter
SkipLine_CountsChapter ==
    /\ pc = "loop"
    /\ i < Len(lines)
    /\ ~IsChapterHeader(Line)
    /\ IsSkipped(Line, current_title)
    /\ chapter_num' =
           IF startswith(Line, CHAPTER) THEN chapter_num + 1 ELSE chapter_num
    /\ i' = i + 1
    /\ UNCHANGED <<lines, sections, current_chapter, current_title,
                   current_content, confession, pc, call>>

\* SkipLine with "continue" in place of the increment of i
SkipLine_Stalls ==
    /\ pc = "loop"
    /\ i < Len(lines)
    /\ ~IsChapterHeader(Line)
    /\ IsSkipped(Line, current_title)
    /\ UNCHANGED vars

\* the branch "Skip empty lines and header lines" of the loop body
SkipLine ==
    /\ pc = "loop"
    /\ i < Len(lines)
    /\ ~IsChapterHeader(Line)
    /\ IsSkipped(Line, current_title)
    /\ i' = i + 1
    /\ UNCHANGED <<lines, sections, current_chapter, current_title,
                   current_content, chapter_num, confession, pc, call>>

\* CollectContent without the book-list patterns
CollectContent_NoBookFilter ==
    /\ pc = "loop"
    /\ i < Len(lines)
    /\ ~IsChapterHeader(Line)
    /\ ~IsSkipped(Line, current_title)
    /\ current_content' =
           IF current_chapter # None
           THEN Append(current_content, Line)
           ELSE current_content
    /\ i' = i + 1
    /\ UNCHANGED <<lines, sections, current_chapter, current_title,
                   chapter_num, confession, pc, call>>

\* the branch "Collect content" of the loop body
CollectContent ==
    /\ pc = "loop"
    /\ i < Len(lines)
    /\ ~IsChapterHeader(Line)
    /\ ~IsSkipped(Line, current_title)
    /\ current_content' =
           IF /\ current_chapter # None
              /\ ~IsNumberedBook(Line)
              /\ ~IsBookName(Line)
           THEN Append(current_content, Line)
           ELSE current_content
    /\ i' = i + 1
    /\ UNCHANGED <<lines, sections, current_chapter, current_title,
                   chapter_num, confession, pc, call>>

\* the code after the loop: the last chapter, the topics and the document
Finish ==
    /\ pc = "loop"
    /\ i >= Len(lines)
    /\ sections' = SaveLast(sections, current_chapter, current_title,
                            current_content)
    /\ confession' = Some(Confession(sections'))
    /\ pc' = "done"
    /\ UNCHANGED <<lines, i, current_chapter, current_title,
                   current_content, chapter_num, call>>

Next == ChapterHeader \/ SkipLine \/ CollectContent \/ Finish

Spec == Init /\ [][Next]_vars

\* parse_westminster runs to its end: a step that can be taken is taken
FairSpec == Spec /\ WF_vars(Next)

(***************************************************************************)
(* The input seen as chapters, read off lines without running the loop:    *)
(* the n-th header, where its chapter ends, and the lines of the chapter   *)
(* that are content.                                                       *)
(***************************************************************************)

IsHeaderAt(k) == IsChapterHeader(strip(At(lines, k)))

\* the number of chapter headers among the first n lines
HeaderCount(n) == Cardinality({k \in 0..(n - 1) : IsHeaderAt(k)})

\* the index of the n-th chapter header
HeaderIndex(n) ==
    CHOOSE k \in 0..(Len(lines) - 1) : IsHeaderAt(k) /\ HeaderCount(k) = n - 1

\* the index of the header after the n-th, or the end of input
ChapterEnd(n) ==
    IF n < HeaderCount(Len(lines)) THEN HeaderIndex(n + 1) ELSE Len(lines)

\* the raw title the lookahead at the n-th header reconstructs
RawTitle(n) == LookaheadTitle(lines, HeaderIndex(n))

\* the lines k..stop-1 that are neither noise nor book-list lines
RECURSIVE ContentLines(_, _, _)
ContentLines(k, stop, title) ==
    IF k >= stop THEN <<>>
    ELSE LET l == strip(At(lines, k))
         IN  (IF \/ IsChapterHeader(l)
                 \/ IsSkipped(l, title)
                 \/ IsNumberedBook(l)
                 \/ IsBookName(l)
              THEN <<>>
              ELSE <<l>>)
             \o ContentLines(k + 1, stop, title)

\* the normalized content of the n-th chapter
ChapterContent(n) ==
    clean_content(ContentLines(HeaderIndex(n) + 1, ChapterEnd(n), RawTitle(n)),
                  RawTitle(n))

\* the n-th header has a title and non-empty normalized content
Emits(n) == RawTitle(n) # None /\ ChapterContent(n) # <<>>

\* the sections that carry chapter number n
SectionsOf(n) == {k \in 1..Len(sections) : sections[k].chapter = str(n)}

\* int(s) for a str of digits
RECURSIVE int(_)
int(s) ==
    IF s = <<>> THEN 0
    ELSE 10 * int(SubSeq(s, 1, Len(s) - 1))
         + (CHOOSE d \in 0..9 : DigitChar(d) = s[Len(s)])

(***************************************************************************)
(* C1.  There are never more sections than detected headers, and in the    *)
(* written document the n-th header has exactly one section if its         *)
(* lookahead found a title and its normalized content is non-empty, and    *)
(* none otherwise; the last chapter, closed by the end of input, included. *)
(***************************************************************************)
C1_OneSectionPerEmittingHeader ==
    /\ Len(sections) <= chapter_num
    /\ pc = "done" =>
        /\ chapter_num = HeaderCount(Len(lines))
        /\ \A n \in 1..chapter_num :
               Cardinality(SectionsOf(n)) = IF Emits(n) THEN 1 ELSE 0
        /\ Len(sections) = Cardinality({n \in 1..chapter_num : Emits(n)})

\* two headers: chapter 1 has a title and content, chapter 2 has no title,
\* and the document holds the one section of chapter 1
C1_Witness ==
    /\ pc = "done"
    /\ chapter_num = 2
    /\ Emits(1)
    /\ RawTitle(2) = None
    /\ Len(sections) = 1
    /\ sections[1].chapter = <<"1">>

\* the last chapter is emitted at the end of input
C1_WitnessLast ==
    /\ pc = "done"
    /\ chapter_num = 2
    /\ Len(sections) = 2

(***************************************************************************)
(* C2.  The counter counts the headers passed so far, emitted or not; a    *)
(* section numbered n holds the content of the n-th header's chapter; and  *)
(* the chapter numbers of the sections increase strictly in list order.    *)
(***************************************************************************)
C2_PositionalNumbering ==
    /\ chapter_num = HeaderCount(i)
    /\ current_chapter = IF chapter_num = 0 THEN None ELSE Some(chapter_num)
    /\ \A k \in 1..Len(sections) :
           /\ int(sections[k].chapter) \in 1..chapter_num
           /\ sections[k].chapter = str(int(sections[k].chapter))
           /\ sections[k].content = ChapterContent(int(sections[k].chapter))
    /\ \A k \in 1..(Len(sections) - 1) :
           int(sections[k].chapter) < int(sections[k + 1].chapter)

\* a document whose sections are numbered 1 and 3: chapter 2 was dropped
C2_Witness ==
    /\ pc = "done"
    /\ Len(sections) = 2
    /\ sections[1].chapter = <<"1">>
    /\ sections[2].chapter = <<"3">>

(***************************************************************************)
(* C5.  The topics of every section are the topic lookup of the section's  *)
(* resolved title, the title the section stores: text of the raw title     *)
(* that resolution discards contributes no topic.                          *)
(***************************************************************************)
C5_TopicsOfResolvedTitle ==
    \A k \in 1..Len(sections) :
        sections[k].topics = get_topics(sections[k].title)

\* the topics of every section are the topic lookup of the raw title that
\* the lookahead at the section's header reconstructed
C5_TopicsOfRawTitle ==
    \A k \in 1..Len(sections) :
        sections[k].topics = get_topics(RawTitle(int(sections[k].chapter))[1])

(***************************************************************************)
(* C6.  In an active chapter, the step that processes a line matching one  *)
(* of the two book-list patterns leaves the content buffer, the chapter    *)
(* counter, the title and the sections as they are; so the buffer never    *)
(* holds a book-list line.                                                 *)
(***************************************************************************)
IsBookList(line) == IsNumberedBook(line) \/ IsBookName(line)

\* C6: a book-list line of an active chapter is passed over with the buffer,
\* the counter, the title and the sections unchanged, and the buffer holds
\* no book-list line
C6_BookListLineIsDropped ==
    /\ [](\A k \in 1..Len(current_content) : ~IsBookList(current_content[k]))
    /\ [][(/\ pc = "loop"
           /\ i < Len(lines)
           /\ current_chapter # None
           /\ IsBookList(Line))
          => (/\ i' = i + 1
              /\ current_content' = current_content
              /\ chapter_num' = chapter_num
              /\ current_chapter' = current_chapter
              /\ current_title' = current_title
              /\ sections' = sections)]_vars

\* a section is emitted for a chapter whose lines after the header include a
\* line of each book-list pattern's kind or the other, and the section's
\* content is the numbered paragraph alone
C6_Witness ==
    /\ pc = "done"
    /\ Len(lines) = 4
    /\ IsBookList(strip(At(lines, 3)))
    /\ ~IsBookList(strip(At(lines, 2)))
    /\ Len(sections) = 1
    /\ sections[1].content = <<"A", "l", "l", " ", "m", "e", "n">>

(***************************************************************************)
(* C8.  In the written document the top-level topics are the topics of the *)
(* sections, each once, in increasing order; there are none exactly when   *)
(* there is no section.                                                    *)
(***************************************************************************)
C8_DocumentTopics ==
    pc = "done" =>
        LET topics == confession[1].topics
            secs   == confession[1].sections
        IN  /\ secs = sections
            /\ {topics[k] : k \in 1..Len(topics)} =
                   UNION {{secs[k].topics[n] : n \in 1..Len(secs[k].topics)}
                          : k \in 1..Len(secs)}
            /\ \A k \in 1..(Len(topics) - 1) : str_less(topics[k], topics[k + 1])
            /\ (topics = <<>>) <=> (secs = <<>>)

\* a document of two sections that share topics and whose union is larger
\* than either's topics
C8_Witness ==
    /\ pc = "done"
    /\ Len(sections) = 2
    /\ sections[1].topics # sections[2].topics
    /\ \E t \in AllTopics(<<sections[1]>>) : t \in AllTopics(<<sections[2]>>)
    /\ Len(confession[1].topics) > Len(sections[1].topics)
    /\ Len(confession[1].topics) < Len(sections[1].topics) + Len(sections[2].topics)

(***************************************************************************)
(* C9.  The raw title of the current chapter is None exactly when none of  *)
(* the up to 9 lines after its header starts with 'Of ' once stripped;     *)
(* otherwise it is the first such line and the longest run of lines right  *)
(* after it, inside the same 9 lines, that are non-empty and do not start  *)
(* with '[', stripped and joined by single spaces.                         *)
(***************************************************************************)
\* the last index the lookahead at header h may read
LastLooked(h) == Min(h + 9, Len(lines) - 1)

IsOfLine(k) == startswith(strip(At(lines, k)), OF_SP)

ContinuesTitle(k) ==
    strip(At(lines, k)) # <<>> /\ ~startswith(strip(At(lines, k)), <<"[">>)

TitleByRule(h) ==
    LET starts == {k \in (h + 1)..LastLooked(h) : IsOfLine(k)}
    IN  IF starts = {} THEN None
        ELSE LET first == Least(starts)
                 last  == Greatest({m \in first..LastLooked(h) :
                              \A k \in (first + 1)..m : ContinuesTitle(k)})
             IN  Some(join(<<" ">>,
                           [k \in 1..(last - first + 1) |->
                               strip(At(lines, first + k - 1))]))

\* C9: at every header passed, the raw title is the one the rule gives for
\* the lines after the header
C9_TitleReconstruction ==
    /\ chapter_num = 0 => current_title = None
    /\ chapter_num > 0 =>
           current_title = TitleByRule(HeaderIndex(chapter_num))

\* the title starts on the ninth line after the header, the last one looked
\* at, and the line after it, which would continue it, is left out
C9_Witness ==
    /\ chapter_num = 1
    /\ i = 1
    /\ Len(lines) > 10
    /\ \A k \in 1..8 : ~IsOfLine(k)
    /\ IsOfLine(9)
    /\ ContinuesTitle(10)
    /\ current_title = Some(strip(At(lines, 9)))

\* a title of several lines, ended by a line that starts with '['
C9_WitnessJoined ==
    /\ chapter_num = 1
    /\ Len(lines) > 3
    /\ current_title = Some(strip(At(lines, 1)) \o <<" ">> \o strip(At(lines, 2)))
    /\ ~ContinuesTitle(3)

(***************************************************************************)
(* C10.  The content buffer holds, in order, only lines after the latest   *)
(* header and before the current line, and nothing before the first        *)
(* header; the content of a section numbered n is built from the lines     *)
(* between the n-th header and the next, whatever the chapters before it   *)
(* accumulated.                                                            *)
(***************************************************************************)
C10_ContentProvenance ==
    /\ chapter_num = 0 => current_content = <<>>
    /\ chapter_num > 0 =>
           current_content =
               ContentLines(HeaderIndex(chapter_num) + 1, i, current_title)
    /\ \A k \in 1..Len(sections) :
           LET n == int(sections[k].chapter)
           IN  sections[k].content =
                   clean_content(ContentLines(HeaderIndex(n) + 1, ChapterEnd(n),
                                              RawTitle(n)),
                                 RawTitle(n))

\* chapter 1 collected lines and was dropped for want of a title; chapter 2
\* is emitted with its own paragraph alone
C10_Witness ==
    /\ pc = "done"
    /\ chapter_num = 2
    /\ RawTitle(1) = None
    /\ ContentLines(HeaderIndex(1) + 1, ChapterEnd(1), None) # <<>>
    /\ Len(sections) = 1
    /\ sections[1].chapter = <<"2">>
    /\ sections[1].content = <<"A", "l", "l", " ", "m", "e", "n">>

\* a line that is neither noise nor a book-list line precedes the first
\* header of a file with a section, and is not collected
C10_WitnessPreamble ==
    /\ pc = "done"
    /\ Len(lines) > 0
    /\ ~IsHeaderAt(0)
    /\ ContentLines(0, 1, None) # <<>>
    /\ Len(sections) = 1
    /\ sections[1].content = <<"A", "l", "l", " ", "m", "e", "n">>

(***************************************************************************)
(* The helpers called on their own.  The text a helper is called on is     *)
(* made of at most MaxFrags fragments: tag openers, whole tags, the        *)
(* closing bracket, a space, a letter, and the two halves of a reference   *)
(* code; or it is one of the example texts.                                *)
(***************************************************************************)

\* '[PCUS a]'
TagPcusA ==
    <<"[", "P", "C", "U", "S", " ", "a", "]">>

\* '[UPCUSA b]'
TagUpcusaB ==
    <<"[", "U", "P", "C", "U", "S", "A", " ", "b", "]">>

\* '[1.'
RefOpen ==
    <<"[", "1", ".">>

\* '2]'
RefClose ==
    <<"2", "]">>

\* 'Of [PCUS Civil] [UPCUSA Civil Government] Matters'
ExamplePairedTitle ==
    <<"O", "f", " ", "[", "P", "C", "U", "S", " ", "C", "i", "v", "i", "l",
    "]", " ", "[", "U", "P", "C", "U", "S", "A", " ", "C", "i", "v", "i",
    "l", " ", "G", "o", "v", "e", "r", "n", "m", "e", "n", "t", "]", " ",
    "M", "a", "t", "t", "e", "r", "s">>

\* 'Of [UPCUSA Civil Government] [PCUS Civil] Matters'
ExamplePairedReversed ==
    <<"O", "f", " ", "[", "U", "P", "C", "U", "S", "A", " ", "C", "i", "v",
    "i", "l", " ", "G", "o", "v", "e", "r", "n", "m", "e", "n", "t", "]",
    " ", "[", "P", "C", "U", "S", " ", "C", "i", "v", "i", "l", "]", " ",
    "M", "a", "t", "t", "e", "r", "s">>

\* '[6.001] All men are sinners.'
ExampleReference ==
    <<"[", "6", ".", "0", "0", "1", "]", " ", "A", "l", "l", " ", "m", "e",
    "n", " ", "a", "r", "e", " ", "s", "i", "n", "n", "e", "r", "s", ".">>

\* 'the [UPCUSA civil magistrate] shall'
ExampleLone ==
    <<"t", "h", "e", " ", "[", "U", "P", "C", "U", "S", "A", " ", "c", "i",
    "v", "i", "l", " ", "m", "a", "g", "i", "s", "t", "r", "a", "t", "e",
    "]", " ", "s", "h", "a", "l", "l">>

VariantFrags ==
    {PCUS_OPEN, UPCUSA_OPEN, <<"]">>, <<" ">>, <<"x">>, TagPcusA, TagUpcusaB}

RefFrags == {RefOpen, RefClose, PCUS_OPEN, <<"]">>, <<" ">>, <<"x">>}

\* the most fragments of a text
MaxFrags == 4

Texts ==
    {Concat(f) : f \in SeqsUpTo(VariantFrags, MaxFrags)}
    \cup {Concat(f) : f \in SeqsUpTo(RefFrags, MaxFrags)}
    \cup {ExamplePairedTitle, ExamplePairedReversed, ExampleReference,
          ExampleLone}

\* the titles clean_content is called with
TitleArgs == {None, Some(<<"x">>)}

\* no helper has been called yet on the text x; parse_westminster is not
\* running
Pending(x) ==
    /\ lines = <<>>
    /\ i = 0
    /\ sections = <<>>
    /\ current_chapter = None
    /\ current_title = None
    /\ current_content = <<>>
    /\ chapter_num = 0
    /\ confession = None
    /\ pc = "idle"
    /\ call = Some([fn |-> "pending", arg |-> x, title |-> None, ret |-> <<>>])

InitClean == \E x \in Texts : Pending(x)

segvars == <<lines, i, sections, current_chapter, current_title,
             current_content, chapter_num, confession, pc>>

\* clean_title(x)
CallCleanTitle ==
    /\ call # None
    /\ call[1].fn = "pending"
    /\ call' = Some([fn |-> "clean_title", arg |-> call[1].arg, title |-> None,
                     ret |-> clean_title(call[1].arg)])
    /\ UNCHANGED segvars

\* clean_title(t) for the t that clean_title(x) returned
CallCleanTitleAgain ==
    /\ call # None
    /\ call[1].fn = "clean_title"
    /\ call' = Some([fn |-> "clean_title_again", arg |-> call[1].ret,
                     title |-> None, ret |-> clean_title(call[1].ret)])
    /\ UNCHANGED segvars

\* clean_content([x], title)
CallCleanContent ==
    /\ call # None
    /\ call[1].fn = "pending"
    /\ \E title \in TitleArgs :
           call' = Some([fn |-> "clean_content", arg |-> call[1].arg,
                         title |-> title,
                         ret |-> clean_content(<<call[1].arg>>, title)])
    /\ UNCHANGED segvars

NextClean == CallCleanTitle \/ CallCleanTitleAgain \/ CallCleanContent

SpecClean == InitClean /\ [][NextClean]_vars

(***************************************************************************)
(* C3.  Resolving a resolved title returns it unchanged.                   *)
(***************************************************************************)
C3_CleanTitleIdempotent ==
    (call # None /\ call[1].fn = "clean_title_again") =>
        call[1].ret = call[1].arg

(***************************************************************************)
(* C4.  A text is a pair when it is a prefix, a tag of one code, a space,  *)
(* a tag of the other code and a suffix, both bodies non-empty, and no     *)
(* bracket in the prefix, the bodies or the suffix.  Of the two codes PCUS *)
(* and UPCUSA, UPCUSA is the one named second.  Resolving a pair, in the   *)
(* title or in the content, keeps the body of the UPCUSA tag whichever of  *)
(* the two tags comes first, and leaves the prefix and the suffix as they  *)
(* are: nothing of the PCUS tag is left.                                   *)
(***************************************************************************)
BracketFree(s) == \A k \in 1..Len(s) : s[k] \notin {"[", "]"}

\* x is pre, [open1 body1], a space, [open2 body2], post
IsPair(x, pre, open1, body1, open2, body2, post) ==
    /\ x = pre \o open1 \o body1 \o <<"]", " ">> \o open2 \o body2 \o <<"]">>
             \o post
    /\ body1 # <<>> /\ body2 # <<>>
    /\ BracketFree(pre) /\ BracketFree(body1)
    /\ BracketFree(body2) /\ BracketFree(post)

\* the first position from `from` on of x that holds a bracket, Len(x) + 1
\* when there is none
NextBracket(x, from) ==
    Least({k \in from..Len(x) : x[k] \in {"[", "]"}} \cup {Len(x) + 1})

\* what is left of the pair x when the body of its first or second tag is
\* kept: the set is empty when x is no pair of open1 and open2.  A pair can
\* be cut in one way only, at its brackets.
Kept(x, open1, open2, which) ==
    LET tag1 == NextBracket(x, 1)
        from1 == tag1 + Len(open1)
        close1 == NextBracket(x, from1)
        from2 == close1 + 2 + Len(open2)
        close2 == NextBracket(x, from2)
    IN  IF from2 > Len(x) \/ close2 > Len(x)
        THEN {}
        ELSE LET pre == SubSeq(x, 1, tag1 - 1)
                 body1 == SubSeq(x, from1, close1 - 1)
                 body2 == SubSeq(x, from2, close2 - 1)
                 post == SubSeq(x, close2 + 1, Len(x))
             IN  IF IsPair(x, pre, open1, body1, open2, body2, post)
                 THEN {pre \o (IF which = 1 THEN body1 ELSE body2) \o post}
                 ELSE {}

\* the call returned what resolution leaves of text, trimmed as the helper
\* called trims it
Returned(text) ==
    \/ /\ call[1].fn = "clean_title"
       /\ call[1].ret = strip(text)
    \/ /\ call[1].fn = "clean_content"
       /\ call[1].ret = strip(CollapseWs(StripTitlePrefix(text, call[1].title)))

Resolved == call # None /\ call[1].fn \in {"clean_title", "clean_content"}

\* C4: in either order the text of the UPCUSA tag of the pair is kept and
\* the PCUS tag is discarded, in clean_title and in clean_content
C4_KeepsUpcusaOfPair ==
    Resolved =>
        /\ \A text \in Kept(call[1].arg, PCUS_OPEN, UPCUSA_OPEN, 2) :
               Returned(text)
        /\ \A text \in Kept(call[1].arg, UPCUSA_OPEN, PCUS_OPEN, 1) :
               Returned(text)

\* the title 'Of [PCUS Civil] [UPCUSA Civil Government] Matters' is resolved
\* to 'Of Civil Government Matters'
C4_Witness ==
    /\ call # None
    /\ call[1].fn = "clean_title"
    /\ call[1].arg = ExamplePairedTitle
    /\ Kept(call[1].arg, PCUS_OPEN, UPCUSA_OPEN, 2) = {call[1].ret}
    /\ call[1].ret = <<"O", "f", " ", "C", "i", "v", "i", "l", " ", "G", "o",
                       "v", "e", "r", "n", "m", "e", "n", "t", " ", "M", "a",
                       "t", "t", "e", "r", "s">>

\* a pair with the UPCUSA tag first is resolved in the content
C4_WitnessReversed ==
    /\ call # None
    /\ call[1].fn = "clean_content"
    /\ Kept(call[1].arg, UPCUSA_OPEN, PCUS_OPEN, 1) # {}

(***************************************************************************)
(* C7.  The normalized content holds no reference code [digits.digits],    *)
(* and '[6.001] All men are sinners.' with no title is normalized to       *)
(* 'All men are sinners.'.                                                 *)
(***************************************************************************)
C7_NoReferenceCodeLeft ==
    (call # None /\ call[1].fn = "clean_content") =>
        /\ \A p \in 1..Len(call[1].ret) : RefMatchEnd(call[1].ret, p) = 0
        /\ (call[1].arg = ExampleReference /\ call[1].title = None) =>
               call[1].ret = <<"A", "l", "l", " ", "m", "e", "n", " ", "a",
                               "r", "e", " ", "s", "i", "n", "n", "e", "r",
                               "s", ".">>

(***************************************************************************)
(* C11.  A line is structural noise when it is empty, starts with one of   *)
(* the boilerplate prefixes, starts with 'CHAPTER' without being a chapter *)
(* header, is a testament divider, or equals the current raw title.  The   *)
(* step that processes a noise line moves to the next line and leaves the  *)
(* chapter counter, the title, the content buffer and the sections as they *)
(* are; and only a step on a chapter header changes the counter or the     *)
(* title.                                                                  *)
(***************************************************************************)
NoiseLine(line, title) ==
    \/ line = <<>>
    \/ startswith(line, PRESBYTERIAN_CHURCH)
    \/ startswith(line, IN_THE_UNITED_STATES)
    \/ startswith(line, THE_UNITED_PRESBYTERIAN)
    \/ (startswith(line, CHAPTER) /\ ~IsChapterHeader(line))
    \/ startswith(line, OF_THE_OLD_TESTAMENT)
    \/ startswith(line, OF_THE_NEW_TESTAMENT)
    \/ title = Some(line)

\* C11: a noise line is passed over with the counter, the title, the buffer
\* and the sections unchanged, and the counter and the title change on
\* chapter headers only
C11_NoiseIsPureSkip ==
    [][/\ (pc = "loop" /\ i < Len(lines) /\ NoiseLine(Line, current_title)) =>
              /\ i' = i + 1
              /\ UNCHANGED <<chapter_num, current_chapter, current_title,
                             current_content, sections>>
       /\ (chapter_num' # chapter_num \/ current_title' # current_title) =>
              (pc = "loop" /\ i < Len(lines) /\ IsChapterHeader(Line))]_vars

\* a line starting with 'CHAPTER' that is no header has just been passed
\* over in a chapter whose buffer holds a line
C11_Witness ==
    /\ pc = "loop"
    /\ i >= 1
    /\ chapter_num = 1
    /\ current_content # <<>>
    /\ startswith(strip(At(lines, i - 1)), CHAPTER)
    /\ NoiseLine(strip(At(lines, i - 1)), current_title)

\* a line equal to the raw title has just been passed over
C11_WitnessTitle ==
    /\ pc = "loop"
    /\ i >= 1
    /\ current_title = Some(strip(At(lines, i - 1)))
    /\ current_content = <<>>

(***************************************************************************)
(* C12.  When the lines between a chapter's header and the next header, or *)
(* the end of input, are the lines of its reconstructed title and noise    *)
(* lines only, the chapter's normalized content is empty and the document  *)
(* holds no section for it: whether the title has one line or several, and *)
(* whatever rule its lines fall under.                                     *)
(***************************************************************************)
\* the indices of the lines that make up the title reconstructed at the
\* header h: none when there is no title
TitleSpan(h) ==
    LET starts == {k \in (h + 1)..LastLooked(h) : IsOfLine(k)}
    IN  IF starts = {} THEN {}
        ELSE LET first == Least(starts)
             IN  {m \in first..LastLooked(h) :
                     \A k \in (first + 1)..m : ContinuesTitle(k)}

\* the n-th chapter holds its title lines, all of them, and noise only
OnlyTitleAndNoise(n) ==
    LET h == HeaderIndex(n)
        between == (h + 1)..(ChapterEnd(n) - 1)
    IN  /\ TitleSpan(h) # {}
        /\ TitleSpan(h) \subseteq between
        /\ \A k \in between :
               k \in TitleSpan(h) \/ NoiseLine(strip(At(lines, k)), RawTitle(n))

\* C12: a chapter of title lines and noise only has empty normalized content
\* and no section in the written document
C12_TitleNeverContent ==
    pc = "done" =>
        \A n \in 1..chapter_num :
            OnlyTitleAndNoise(n) =>
                ChapterContent(n) = <<>> /\ SectionsOf(n) = {}

\* a chapter whose title has two lines and which holds nothing else is
\* dropped: the title lines were collected and removed as the title prefix
C12_TwoLineTitleDropped ==
    /\ pc = "done"
    /\ chapter_num = 1
    /\ Cardinality(TitleSpan(0)) = 2
    /\ OnlyTitleAndNoise(1)
    /\ current_content # <<>>
    /\ sections = <<>>

(***************************************************************************)
(* C13.  The four variant substitutions of clean_content give, on every    *)
(* text, what the four substitutions of clean_title give before the trim;  *)
(* so each helper returns what it would return with the other's four       *)
(* substitutions in place of its own.                                      *)
(***************************************************************************)
C13_SameSubstitutions ==
    call # None =>
        /\ ContentSubs(call[1].arg) = TitleSubs(call[1].arg)
        /\ call[1].fn = "clean_title" =>
               call[1].ret = strip(ContentSubs(call[1].arg))
        /\ call[1].fn = "clean_content" =>
               call[1].ret =
                   strip(CollapseWs(StripTitlePrefix(
                       TitleSubs(StripRefs(call[1].arg)), call[1].title)))

\* the title 'Of [UPCUSA Civil Government] [PCUS Civil] Matters' collected
\* as content is resolved to 'Of Civil Government Matters', the resolved title
C13_Witness ==
    /\ call # None
    /\ call[1].fn = "clean_content"
    /\ call[1].title = None
    /\ call[1].arg = ExamplePairedReversed
    /\ call[1].ret = clean_title(ExamplePairedReversed)
    /\ call[1].ret = <<"O", "f", " ", "C", "i", "v", "i", "l", " ", "G", "o",
                       "v", "e", "r", "n", "m", "e", "n", "t", " ", "M", "a",
                       "t", "t", "e", "r", "s">>

(***************************************************************************)
(* C14.  The loop starts at the first line; every step of the loop, on a   *)
(* header, a noise line or a content line, moves the index forward by      *)
(* exactly one line and reads no other line as the current one, the steps  *)
(* of the lookahead included; the code after the loop runs once, after the *)
(* last line; and every run reaches the written document.                  *)
(***************************************************************************)
C14_SinglePassTerminates ==
    /\ i = 0 /\ pc = "loop"
    /\ [][/\ pc = "loop"
          /\ lines' = lines
          /\ \/ i < Len(lines) /\ i' = i + 1 /\ pc' = "loop"
             \/ i = Len(lines) /\ i' = i /\ pc' = "done"]_vars
    /\ [](pc = "done" => i = Len(lines))
    /\ <>(pc = "done")

\* the lookahead found the title on the ninth line after the header; the
\* eight lines it scanned before were then collected by the loop, one by one
C14_Witness ==
    /\ pc = "done"
    /\ chapter_num = 1
    /\ Len(lines) = 10
    /\ i = 10
    /\ IsOfLine(9)
    /\ Len(current_content) = 8
    /\ Len(sections) = 1

(***************************************************************************)
(* C15.  The raw title held for the chapter being read is the one the      *)
(* lookahead reconstructs from the lines before the next chapter header    *)
(* alone, so no following header line and no title line of a later chapter *)
(* is part of it; and in the written document a chapter with no line that  *)
(* starts with 'Of ' between its header and the next has no section.       *)
(***************************************************************************)
\* the lines of the input before the header that follows the n-th
OwnLines(n) == SubSeq(lines, 1, ChapterEnd(n))

\* the n-th chapter has no 'Of ' line of its own
NoOwnTitle(n) ==
    \A k \in (HeaderIndex(n) + 1)..(ChapterEnd(n) - 1) : ~IsOfLine(k)

C15_TitleInsideChapter ==
    /\ chapter_num > 0 =>
           current_title =
               LookaheadTitle(OwnLines(chapter_num), HeaderIndex(chapter_num))
    /\ pc = "done" =>
           \A n \in 1..chapter_num : NoOwnTitle(n) => SectionsOf(n) = {}

====
